---- MODULE Spec2Model ----
(***************************************************************************)
(* Model of scripts/api_interceptor.py: the mitmproxy addon AuraInterceptor *)
(* (its response hook and save), the helpers is_target_request,            *)
(* extract_endpoint_info and categorize_endpoint, the module-level store    *)
(* captured_endpoints, and generate_typescript_client.                      *)
(*                                                                         *)
(* Python str values are TLA+ strings (Len, SubSeq and \o act on them      *)
(* character by character).  A Python dict is a sequence of <<key, value>> *)
(* pairs in insertion order.  A Python value that may be None is a tagged  *)
(* record [t, s, items]: t is the Python type name, s the text of a str or *)
(* the digits of an int, items the pairs of a dict.                        *)
(***************************************************************************)
EXTENDS Integers, Sequences, FiniteSets, TLC

VARIABLES captured_endpoints, request_count, output_file, io, clock,
          flows, ts_output, probe

vars == <<captured_endpoints, request_count, output_file, io, clock,
          flows, ts_output, probe>>

(***************************************************************************)
(* Bounds of the model and constants of the program.                        *)
(***************************************************************************)
\* Number of exchanges the proxy engine delivers in one run of the model.
MaxCalls == 3
\* Number of path segments of a path handed to categorize_endpoint alone.
MaxSegments == 2
\* str(response_body)[:500] and .decode(...)[:500]
PREVIEW_LIMIT == 500
\* auth_header.split(" ")[-1][:20]
SAMPLE_TOKEN_LEN == 20

(***************************************************************************)
(* Python str operations.                                                   *)
(***************************************************************************)
\* s[i] as a one-character string (1-based)
CharAt(s, i) == SubSeq(s, i, i)

\* s[:n]
Take(s, n) == IF Len(s) <= n THEN s ELSE SubSeq(s, 1, n)

\* s[n:] (0-based n)
Drop(s, n) == IF n >= Len(s) THEN "" ELSE SubSeq(s, n + 1, Len(s))

\* sub in s
Contains(sub, s) ==
    \E i \in 1..(Len(s) - Len(sub) + 1) : SubSeq(s, i, i + Len(sub) - 1) = sub

\* s.endswith(sub)
EndsWith(s, sub) ==
    Len(sub) <= Len(s) /\ SubSeq(s, Len(s) - Len(sub) + 1, Len(s)) = sub

\* s.find(sub), 1-based; 0 when sub does not occur
Find(sub, s) ==
    IF Contains(sub, s)
    THEN CHOOSE i \in 1..(Len(s) - Len(sub) + 1) :
            /\ SubSeq(s, i, i + Len(sub) - 1) = sub
            /\ \A j \in 1..(i - 1) : SubSeq(s, j, j + Len(sub) - 1) # sub
    ELSE 0

\* s.rfind(sub), 1-based; 0 when sub does not occur
RFind(sub, s) ==
    IF Contains(sub, s)
    THEN CHOOSE i \in 1..(Len(s) - Len(sub) + 1) :
            /\ SubSeq(s, i, i + Len(sub) - 1) = sub
            /\ \A j \in (i + 1)..(Len(s) - Len(sub) + 1) :
                   SubSeq(s, j, j + Len(sub) - 1) # sub
    ELSE 0

UpperAlphabet == "ABCDEFGHIJKLMNOPQRSTUVWXYZ"
LowerAlphabet == "abcdefghijklmnopqrstuvwxyz"

\* the table that sends each character of `from` to the character of `to` at
\* the same place
CharTable(from, to) ==
    [c \in {CharAt(from, i) : i \in 1..Len(from)} |-> CharAt(to, Find(c, from))]

TO_LOWER == CharTable(UpperAlphabet, LowerAlphabet)
TO_UPPER == CharTable(LowerAlphabet, UpperAlphabet)

\* s with each character that table maps replaced by its image
RECURSIVE MapStr(_, _)
MapStr(s, table) ==
    IF s = "" THEN ""
    ELSE IF Len(s) = 1 THEN (IF s \in DOMAIN table THEN table[s] ELSE s)
    ELSE MapStr(Take(s, Len(s) \div 2), table) \o MapStr(Drop(s, Len(s) \div 2), table)

\* s.lower() and s.upper() on ASCII text
Lower(s) == MapStr(s, TO_LOWER)
Upper(s) == MapStr(s, TO_UPPER)

\* s.replace(old, new) for a one-character old
Replace(s, old, new) == MapStr(s, CharTable(old, new))

\* s.strip(chars): cs is the set of characters stripped from both ends
Strip(s, cs) ==
    IF \A i \in 1..Len(s) : CharAt(s, i) \in cs THEN ""
    ELSE LET a == CHOOSE i \in 1..Len(s) :
                     CharAt(s, i) \notin cs /\ \A j \in 1..(i - 1) : CharAt(s, j) \in cs
             k == CHOOSE i \in 1..Len(s) :
                     CharAt(s, Len(s) + 1 - i) \notin cs
                     /\ \A j \in 1..(i - 1) : CharAt(s, Len(s) + 1 - j) \in cs
         IN  SubSeq(s, a, Len(s) + 1 - k)

\* s.split(" ")[-1]
LastField(s) == Drop(s, RFind(" ", s))

\* n copies of the text c
RECURSIVE Rep(_, _)
Rep(c, n) ==
    IF n <= 0 THEN ""
    ELSE IF n = 1 THEN c
    ELSE Rep(c, n \div 2) \o Rep(c, n - (n \div 2))

(***************************************************************************)
(* Python values and dicts.                                                 *)
(***************************************************************************)
PyNone == [t |-> "NoneType", s |-> "", items |-> <<>>]
PyStr(s) == [t |-> "str", s |-> s, items |-> <<>>]
PyInt(digits) == [t |-> "int", s |-> digits, items |-> <<>>]
PyBool(b) == [t |-> "bool", s |-> IF b THEN "True" ELSE "False", items |-> <<>>]
PyList == [t |-> "list", s |-> "", items |-> <<>>]
PyDict(items) == [t |-> "dict", s |-> "", items |-> items]

\* k in d
DictHas(d, k) == \E i \in 1..Len(d) : d[i][1] = k

\* d[k]
DictGet(d, k) == d[CHOOSE i \in 1..Len(d) : d[i][1] = k][2]

\* d[k] = v: an existing key keeps its place, a new key goes last
DictSet(d, k, v) ==
    IF DictHas(d, k)
    THEN [i \in 1..Len(d) |-> IF d[i][1] = k THEN <<k, v>> ELSE d[i]]
    ELSE Append(d, <<k, v>>)

\* {k: v for k, v in d.items() if k.lower() in keep}
FilterHeaders(d, keep) ==
    LET F[i \in 0..Len(d)] ==
            IF i = 0 THEN <<>>
            ELSE IF Lower(d[i][1]) \in keep THEN Append(F[i - 1], d[i]) ELSE F[i - 1]
    IN  F[Len(d)]

(***************************************************************************)
(* urlparse, for the URLs the proxy engine hands over                       *)
(* (scheme://netloc/path?query#fragment).                                   *)
(***************************************************************************)
urlparse(url) ==
    LET i == Find("://", url)
        rest == IF i > 0 THEN Drop(url, i + 2) ELSE url
        ends == {k \in 1..Len(rest) : CharAt(rest, k) \in {"/", "?", "#"}}
        e == IF ends = {} THEN Len(rest) + 1
             ELSE CHOOSE k \in ends : \A m \in ends : k <= m
        after == IF i > 0 THEN Drop(rest, e - 1) ELSE rest
        h == Find("#", after)
        nofrag == IF h > 0 THEN Take(after, h - 1) ELSE after
        q == Find("?", nofrag)
    IN  [scheme |-> IF i > 0 THEN Take(url, i - 1) ELSE "",
         netloc |-> IF i > 0 THEN Take(rest, e - 1) ELSE "",
         path |-> IF q > 0 THEN Take(nofrag, q - 1) ELSE nofrag,
         query |-> IF q > 0 THEN Drop(nofrag, q) ELSE "",
         fragment |-> IF h > 0 THEN Drop(after, h) ELSE ""]

\* flow.request.pretty_url: scheme, host and request target (path and query)
pretty_url(flow) == flow.scheme \o "://" \o flow.host \o flow.path

(***************************************************************************)
(* Target filter and static-asset filter.                                   *)
(***************************************************************************)
TARGET_DOMAINS == <<"aura.build", "api.aura.build">>

STATIC_EXTENSIONS == <<".js", ".css", ".png", ".jpg", ".svg", ".woff">>

is_target_request(url) ==
    \E d \in 1..Len(TARGET_DOMAINS) : Contains(TARGET_DOMAINS[d], urlparse(url).netloc)

\* any(ext in flow.request.path for ext in [...]); the request path of the
\* engine is the request target, query string included
is_static_asset(flow) ==
    \E e \in 1..Len(STATIC_EXTENSIONS) : Contains(STATIC_EXTENSIONS[e], flow.path)

(***************************************************************************)
(* categorize_endpoint.                                                     *)
(***************************************************************************)
\* Faulty variant of categorize_endpoint: the /project rule is tried before the
\* auth rule.
categorize_endpoint_projects_first(path, method) ==
    LET path_lower == Lower(path)
    IN  IF Contains("/project", path_lower)
        THEN "projects"
        ELSE IF Contains("/auth", path_lower) \/ Contains("/login", path_lower)
                \/ Contains("/token", path_lower)
        THEN "auth"
        ELSE IF Contains("/generate", path_lower) \/ Contains("/ai", path_lower)
        THEN "generation"
        ELSE IF Contains("/export", path_lower) \/ Contains("/download", path_lower)
        THEN "export"
        ELSE IF Contains("/asset", path_lower) \/ Contains("/upload", path_lower)
                \/ Contains("/image", path_lower)
        THEN "assets"
        ELSE IF Contains("/template", path_lower)
        THEN "templates"
        ELSE IF Contains("/component", path_lower)
        THEN "components"
        ELSE IF Contains("/user", path_lower) \/ Contains("/account", path_lower)
        THEN "users"
        ELSE "other"

categorize_endpoint(path, method) ==
    LET path_lower == Lower(path)
    IN  IF Contains("/auth", path_lower) \/ Contains("/login", path_lower)
           \/ Contains("/token", path_lower)
        THEN "auth"
        ELSE IF Contains("/project", path_lower)
        THEN "projects"
        ELSE IF Contains("/generate", path_lower) \/ Contains("/ai", path_lower)
        THEN "generation"
        ELSE IF Contains("/export", path_lower) \/ Contains("/download", path_lower)
        THEN "export"
        ELSE IF Contains("/asset", path_lower) \/ Contains("/upload", path_lower)
                \/ Contains("/image", path_lower)
        THEN "assets"
        ELSE IF Contains("/template", path_lower)
        THEN "templates"
        ELSE IF Contains("/component", path_lower)
        THEN "components"
        ELSE IF Contains("/user", path_lower) \/ Contains("/account", path_lower)
        THEN "users"
        ELSE "other"

(***************************************************************************)
(* json.loads and str() on the JSON texts the modelled bodies use: a       *)
(* scalar (null, true, false, an integer, a string without escapes), an    *)
(* empty array, or an object of at most one member whose value is a        *)
(* scalar, with any surrounding whitespace.  Every other text is a decode  *)
(* error here; the bodies of Flows hold no valid JSON outside this subset. *)
(***************************************************************************)
JSON_WHITESPACE == {" ", "\t", "\n", "\r"}

\* stands for a byte that is not valid UTF-8
INVALID_BYTE == "@"
\* stands for U+FFFD, which decode(errors="replace") puts in its place
REPLACEMENT_CHAR == "?"

IsDigits(s) == s # "" /\ \A i \in 1..Len(s) : Contains(CharAt(s, i), "0123456789")

IsJsonInt(t) ==
    LET body == IF Take(t, 1) = "-" THEN Drop(t, 1) ELSE t
    IN  IsDigits(body) /\ (Len(body) = 1 \/ CharAt(body, 1) # "0")

IsJsonString(t) ==
    /\ Len(t) >= 2
    /\ CharAt(t, 1) = "\""
    /\ CharAt(t, Len(t)) = "\""
    /\ \A i \in 2..(Len(t) - 1) : CharAt(t, i) \notin {"\"", "\\", "\n", "\t", "\r"}

IsJsonScalar(t) ==
    t \in {"null", "true", "false"} \/ IsJsonInt(t) \/ IsJsonString(t)

json_scalar(t) ==
    IF t = "null" THEN PyNone
    ELSE IF t = "true" THEN PyBool(TRUE)
    ELSE IF t = "false" THEN PyBool(FALSE)
    ELSE IF IsJsonInt(t) THEN PyInt(IF t = "-0" THEN "0" ELSE t)
    ELSE PyStr(SubSeq(t, 2, Len(t) - 1))

\* the text between the brackets of t, stripped
Inner(t) == Strip(SubSeq(t, 2, Len(t) - 1), JSON_WHITESPACE)

IsBracketed(t, open, close) ==
    Len(t) >= 2 /\ CharAt(t, 1) = open /\ CharAt(t, Len(t)) = close

\* what json.loads gives: [ok |-> the text is JSON, value |-> the decoded value]
json_error == [ok |-> FALSE, value |-> PyNone]
json_ok(v) == [ok |-> TRUE, value |-> v]

\* "key": value, given the texts of the key and of the value
json_pair(key_text, value_text) ==
    IF IsJsonString(key_text) /\ IsJsonScalar(value_text)
    THEN json_ok(PyDict(<< <<json_scalar(key_text).s, json_scalar(value_text)>> >>))
    ELSE json_error

\* rest is what follows the key
json_after_key(key_text, rest) ==
    IF Take(rest, 1) = ":"
    THEN json_pair(key_text, Strip(Drop(rest, 1), JSON_WHITESPACE))
    ELSE json_error

\* m is the body of an object, close the place of the quote that ends its key
json_member(m, close) ==
    IF Take(m, 1) = "\"" /\ close > 0
    THEN json_after_key(Take(m, close + 1), Strip(Drop(m, close + 1), JSON_WHITESPACE))
    ELSE json_error

json_object(inner) ==
    IF inner = "" THEN json_ok(PyDict(<<>>))
    ELSE json_member(inner, Find("\"", Drop(inner, 1)))

json_array(inner) == IF inner = "" THEN json_ok(PyList) ELSE json_error

json_value(t) ==
    IF IsJsonScalar(t) THEN json_ok(json_scalar(t))
    ELSE IF IsBracketed(t, "[", "]") THEN json_array(Inner(t))
    ELSE IF IsBracketed(t, "{", "}") THEN json_object(Inner(t))
    ELSE json_error

json_loads(text) == json_value(Strip(text, JSON_WHITESPACE))

\* content.decode("utf-8") raises UnicodeDecodeError
utf8_invalid(content) == Contains(INVALID_BYTE, content)

\* content.decode("utf-8", errors="replace")
decode_replace(content) ==
    IF utf8_invalid(content) THEN Replace(content, INVALID_BYTE, REPLACEMENT_CHAR)
    ELSE content

\* repr(v) of a scalar (a str holding no quote)
py_repr(v) == IF v.t = "str" THEN "'" \o v.s \o "'"
              ELSE IF v.t = "NoneType" THEN "None"
              ELSE v.s

\* str(v)
py_str(v) ==
    IF v.t = "NoneType" THEN "None"
    ELSE IF v.t = "list" THEN "[]"
    ELSE IF v.t = "dict"
    THEN IF v.items = <<>> THEN "{}"
         ELSE "{'" \o v.items[1][1] \o "': " \o py_repr(v.items[1][2]) \o "}"
    ELSE v.s

\* bool(v)
truthy(v) ==
    IF v.t = "NoneType" THEN FALSE
    ELSE IF v.t = "bool" THEN v.s = "True"
    ELSE IF v.t = "int" THEN v.s # "0"
    ELSE IF v.t = "str" THEN v.s # ""
    ELSE IF v.t = "dict" THEN v.items # <<>>
    ELSE FALSE

(***************************************************************************)
(* extract_endpoint_info.                                                   *)
(***************************************************************************)
\* the try/except of lines 70-73 and 78-81: the decoded value, or the text
decoded_or(decoded, text) == IF decoded.ok THEN decoded.value ELSE text

\* lines 67-73: the request body
request_body_of(content) ==
    IF content = "" THEN PyNone
    ELSE IF utf8_invalid(content) THEN PyStr(decode_replace(content))
    ELSE decoded_or(json_loads(content), PyStr(decode_replace(content)))

\* lines 75-81: the response body
response_body_of(content) ==
    IF content = "" THEN PyNone
    ELSE IF utf8_invalid(content)
    THEN PyStr(Take(decode_replace(content), PREVIEW_LIMIT))
    ELSE decoded_or(json_loads(content),
                    PyStr(Take(decode_replace(content), PREVIEW_LIMIT)))

\* Faulty variant of response_body_preview: the [:500] is left out.
response_body_preview_untruncated(response_body) ==
    IF truthy(response_body) THEN PyStr(py_str(response_body)) ELSE PyNone

\* lines 106-108: str(response_body)[:500] if response_body else None
response_body_preview(response_body) ==
    IF truthy(response_body)
    THEN PyStr(Take(py_str(response_body), PREVIEW_LIMIT))
    ELSE PyNone

\* dict(request.headers).get("authorization", "")
auth_header_of(flow) ==
    IF DictHas(flow.headers, "authorization")
    THEN DictGet(flow.headers, "authorization")
    ELSE ""

\* Faulty variant of update_auth: a method once "Bearer" is never downgraded.
update_auth_sticky(auth, auth_header) ==
    IF auth_header = "" THEN auth
    ELSE LET bearer == Contains("Bearer", auth_header)
         IN  [method |-> IF bearer \/ auth.method = PyStr("Bearer")
                         THEN PyStr("Bearer") ELSE PyStr("Unknown"),
              token_header |-> PyStr("Authorization"),
              sample_token |->
                  IF bearer
                  THEN PyStr(Take(LastField(auth_header), SAMPLE_TOKEN_LEN) \o "...")
                  ELSE auth.sample_token]

\* Faulty variant of update_auth: a header without "Bearer" clears the sample.
update_auth_clears_sample(auth, auth_header) ==
    IF auth_header = "" THEN auth
    ELSE LET bearer == Contains("Bearer", auth_header)
         IN  [method |-> IF bearer THEN PyStr("Bearer") ELSE PyStr("Unknown"),
              token_header |-> PyStr("Authorization"),
              sample_token |->
                  IF bearer
                  THEN PyStr(Take(LastField(auth_header), SAMPLE_TOKEN_LEN) \o "...")
                  ELSE PyNone]

\* lines 83-89: the side effect on captured_endpoints["auth"]
update_auth(auth, auth_header) ==
    IF auth_header = "" THEN auth
    ELSE LET bearer == Contains("Bearer", auth_header)
         IN  [method |-> IF bearer THEN PyStr("Bearer") ELSE PyStr("Unknown"),
              token_header |-> PyStr("Authorization"),
              sample_token |->
                  IF bearer
                  THEN PyStr(Take(LastField(auth_header), SAMPLE_TOKEN_LEN) \o "...")
                  ELSE auth.sample_token]

\* lines 91-110: the returned record; now is datetime.now()
extract_endpoint_info(flow, now) ==
    [method |-> flow.method,
     path |-> urlparse(pretty_url(flow)).path,
     full_url |-> pretty_url(flow),
     query_params |-> flow.query,
     request_headers |->
         FilterHeaders(flow.headers, {"content-type", "authorization", "x-api-key", "accept"}),
     request_body |-> request_body_of(flow.content),
     response_status |-> PyInt(flow.status_code),
     response_headers |->
         FilterHeaders(flow.response_headers, {"content-type", "set-cookie"}),
     response_body_preview |->
         response_body_preview(response_body_of(flow.response_content)),
     timestamp |-> now]

(***************************************************************************)
(* The exchanges the proxy engine delivers.                                 *)
(***************************************************************************)
Flow(method, host, path, query, headers, content, status_code,
     response_headers, response_content) ==
    [method |-> method, scheme |-> "https", host |-> host, path |-> path,
     query |-> query, headers |-> headers, content |-> content,
     status_code |-> status_code, response_headers |-> response_headers,
     response_content |-> response_content]

JsonType == <<"content-type", "application/json">>
LongBearer == "Bearer " \o LowerAlphabet

\* GET /api/auth/login, no credentials, a JSON object in the response
FlowLogin ==
    Flow("GET", "aura.build", "/api/auth/login", <<>>,
         << <<"accept", "application/json">>, <<"user-agent", "browser">> >>, "",
         "200", <<JsonType, <<"set-cookie", "sid=1">>, <<"server", "edge">> >>,
         "{\"token\": \"t1\"}")

\* POST /api/projects with a bearer token; the response is a JSON string of
\* twice PREVIEW_LIMIT characters
FlowCreateProject ==
    Flow("POST", "api.aura.build", "/api/projects", <<>>,
         << <<"authorization", LongBearer>>, JsonType >>, "{\"name\":\"x\"}",
         "201", <<JsonType>>, "\"" \o Rep("a", 2 * PREVIEW_LIMIT - 2) \o "\"")

\* a static asset of the target host, sent with credentials
FlowStaticAsset ==
    Flow("GET", "aura.build", "/static/logo.png", <<>>,
         << <<"authorization", "Bearer staticassettoken" >> >>, "",
         "200", << <<"content-type", "image/png">> >>, "PNG@@")

\* another host, sent with credentials
FlowOtherHost ==
    Flow("GET", "example.com", "/api/projects", <<>>,
         << <<"authorization", "Bearer otherhosttoken">> >>, "",
         "200", <<JsonType>>, "[]")

\* a host that holds a target domain in front of another domain
FlowLookalikeHost ==
    Flow("GET", "aura.build.evil.example", "/api/user/me", <<>>,
         <<>>, "", "200", <<JsonType>>, "{}")

\* GET /api/projects?page=2 with basic credentials; the response is text of
\* twice PREVIEW_LIMIT characters that is not JSON
FlowListProjects ==
    Flow("GET", "www.aura.build", "/api/projects?page=2", << <<"page", "2">> >>,
         << <<"authorization", "Basic dXNlcjpwYXNz">> >>, "",
         "200", << <<"content-type", "text/html">> >>,
         "<html>" \o Rep("x", 2 * PREVIEW_LIMIT - 6))

\* POST /api/projects again with a short bearer token; the response is the JSON
\* number 1 padded with whitespace to twice PREVIEW_LIMIT characters
FlowCreateAgain ==
    Flow("POST", "api.aura.build", "/api/projects", <<>>,
         << <<"authorization", "Bearer short">> >>, "name=y@",
         "500", <<JsonType>>, "1" \o Rep(" ", 2 * PREVIEW_LIMIT - 1))

\* GET /api/user-x; the header name is capitalised as HTTP/1.1 clients send it
FlowUserDash ==
    Flow("GET", "aura.build", "/api/user-x", <<>>,
         << <<"Authorization", "Bearer capitalisedname">> >>, "",
         "200", <<JsonType>>, "false")

\* GET /api/user_x, whose method name is that of /api/user-x; the
\* authorization header is empty
FlowUserUnderscore ==
    Flow("GET", "aura.build", "/api/user_x", <<>>,
         << <<"authorization", "">> >>, "",
         "204", <<>>, "")

\* a path that holds /auth and /project
FlowAuthProject ==
    Flow("GET", "api.aura.build", "/api/Auth/project-settings?tab=1",
         << <<"tab", "1">> >>, << <<"x-api-key", "k1">> >>, "",
         "200", <<JsonType>>, "\"ok\"")

\* a static-asset extension in the query string only
FlowExportQuery ==
    Flow("GET", "aura.build", "/api/export?file=a.css", << <<"file", "a.css">> >>,
         <<>>, "", "200", <<JsonType>>, "{\"url\": \"u\"}")

Flows == {FlowLogin, FlowCreateProject, FlowStaticAsset, FlowOtherHost,
          FlowLookalikeHost, FlowListProjects, FlowCreateAgain, FlowUserDash,
          FlowUserUnderscore, FlowAuthProject, FlowExportQuery}

(***************************************************************************)
(* The capture store and the response hook of AuraInterceptor.              *)
(***************************************************************************)
\* lines 30-40: captured_endpoints as the module is imported
InitialStore ==
    [captured_at |-> 0,
     base_url |-> "https://www.aura.build",
     endpoints |-> <<>>,
     auth |-> [method |-> PyNone, token_header |-> PyNone, sample_token |-> PyNone],
     requests |-> <<>>]

\* lines 164-172: the summary stored for an endpoint
endpoint_summary(info) ==
    [method |-> info.method,
     path |-> info.path,
     query_params |-> info.query_params,
     request_body_example |-> info.request_body,
     response_status |-> info.response_status,
     response_body_example |-> info.response_body_preview,
     last_seen |-> info.timestamp]

\* Faulty variant of store_endpoint: a key already stored keeps its summary.
store_endpoint_keeps_first(endpoints, category, endpoint_key, info) ==
    LET with_category == IF ~DictHas(endpoints, category)
                         THEN DictSet(endpoints, category, <<>>)
                         ELSE endpoints
    IN  IF DictHas(DictGet(with_category, category), endpoint_key)
        THEN with_category
        ELSE DictSet(with_category, category,
                     DictSet(DictGet(with_category, category), endpoint_key,
                             endpoint_summary(info)))

\* lines 160-172: captured_endpoints["endpoints"][category][endpoint_key] = {...}
store_endpoint(endpoints, category, endpoint_key, info) ==
    LET with_category == IF ~DictHas(endpoints, category)
                         THEN DictSet(endpoints, category, <<>>)
                         ELSE endpoints
    IN  DictSet(with_category, category,
                DictSet(DictGet(with_category, category), endpoint_key,
                        endpoint_summary(info)))

\* line 187: json.dump(captured_endpoints, f, indent=2, default=str).  The
\* document is kept as the value json.load gives back: every stored value is a
\* str, an int, None, a dict or a list, and dump and load keep the order of keys.
json_dump(store) ==
    [captured_at |-> store.captured_at,
     base_url |-> store.base_url,
     endpoints |-> store.endpoints,
     auth |-> store.auth,
     requests |-> store.requests]

\* lines 184-187: AuraInterceptor.save; the file is a sequence holding its one
\* document, empty while the file does not exist
save(store) == <<json_dump(store)>>

\* lines 181-182: the log line
log_line(count, info) ==
    "[" \o ToString(count) \o "] " \o info.method \o " " \o info.path \o " -> "
    \o (IF truthy(info.response_status) THEN info.response_status.s ELSE "?")

\* the record of one I/O effect: a write of the output file with a document of
\* n requests, or the log line of exchange number n
IoWrite(doc) == [op |-> "write", n |-> Len(doc.requests), text |-> ""]
IoLog(count, line) == [op |-> "log", n |-> count, text |-> line]

\* What the hook computes from a flow alone (the time of extraction aside):
\* lines 146, 150, 154 and 157, evaluated once for each flow of Flows.
OnFlow ==
    [f \in Flows |->
        LET endpoint_info == extract_endpoint_info(f, 0)
        IN  [is_target |-> is_target_request(pretty_url(f)),
             is_static |-> is_static_asset(f),
             endpoint_info |-> endpoint_info,
             category |-> categorize_endpoint(endpoint_info.path,
                                              endpoint_info.method)]]

\* Faulty variant of store_exchange: the record goes first in requests.
store_exchange_prepends(store, auth, endpoint_info, category) ==
    [store EXCEPT
        !.auth = auth,
        !.endpoints = store_endpoint(@, category,
                                     endpoint_info.method \o " " \o endpoint_info.path,
                                     endpoint_info),
        !.requests = <<endpoint_info>> \o @]

\* lines 158-175: the summary goes under its category and key, the record
\* goes last in requests; auth is what extract_endpoint_info left in the store
store_exchange(store, auth, endpoint_info, category) ==
    [store EXCEPT
        !.auth = auth,
        !.endpoints = store_endpoint(@, category,
                                     endpoint_info.method \o " " \o endpoint_info.path,
                                     endpoint_info),
        !.requests = Append(@, endpoint_info)]

\* Faulty variant of save_and_log: the file is written before the store is
\* updated, so it holds the store as it was before the exchange.
save_and_log_stale(st, stored, count, endpoint_info) ==
    [captured_endpoints |-> stored,
     request_count |-> count,
     output_file |-> save(st.captured_endpoints),
     io |-> st.io \o <<IoWrite(json_dump(st.captured_endpoints)),
                       IoLog(count, log_line(count, endpoint_info))>>]

\* lines 177-182: self.save(), then ctx.log.info
save_and_log(st, stored, count, endpoint_info) ==
    [captured_endpoints |-> stored,
     request_count |-> count,
     output_file |-> save(stored),
     io |-> st.io \o <<IoWrite(json_dump(stored)),
                       IoLog(count, log_line(count, endpoint_info))>>]

\* lines 153-182: the hook on an exchange that passed the filters; st holds
\* captured_endpoints, request_count, output_file and io
record_exchange(st, flow, endpoint_info) ==
    save_and_log(st,
                 store_exchange(st.captured_endpoints,
                                update_auth(st.captured_endpoints.auth,
                                            auth_header_of(flow)),
                                endpoint_info, OnFlow[flow].category),
                 st.request_count + 1,
                 endpoint_info)

\* Faulty variant of response: the static-asset filter runs after the
\* credentials of the exchange were taken into the store.
response_auth_before_filter(st, flow, now) ==
    IF ~OnFlow[flow].is_target THEN st
    ELSE IF OnFlow[flow].is_static
    THEN [st EXCEPT !.captured_endpoints.auth = update_auth(@, auth_header_of(flow))]
    ELSE record_exchange(st, flow, [OnFlow[flow].endpoint_info EXCEPT !.timestamp = now])

\* lines 144-182: AuraInterceptor.response; now is datetime.now() at line 109
response(st, flow, now) ==
    IF ~OnFlow[flow].is_target THEN st
    ELSE IF OnFlow[flow].is_static THEN st
    ELSE record_exchange(st, flow, [OnFlow[flow].endpoint_info EXCEPT !.timestamp = now])

(***************************************************************************)
(* generate_typescript_client.                                              *)
(***************************************************************************)
\* lines 226-227
func_name_of(method, path) ==
    Lower(method) \o "_" \o Strip(Replace(Replace(path, "/", "_"), "-", "_"), {"_"})

\* lines 229-233: the text of one method
method_text(method, path) ==
    "\n  async " \o func_name_of(method, path)
    \o "(params?: Record<string, unknown>): Promise<unknown> {\n"
    \o "    return this.client." \o Lower(method) \o "('" \o path
    \o "', params).then(r => r.data);\n  }\n"

\* Faulty variant of category_methods: an endpoint whose method name was
\* already emitted in the category is left out.
category_methods_merged(category, endpoints) ==
    LET M[i \in 0..Len(endpoints)] ==
            IF i = 0 THEN <<>>
            ELSE IF \E j \in 1..Len(M[i - 1]) :
                       M[i - 1][j].func_name
                         = func_name_of(endpoints[i][2].method, endpoints[i][2].path)
            THEN M[i - 1]
            ELSE Append(M[i - 1],
                        [kind |-> "method",
                         category |-> category,
                         endpoint_key |-> endpoints[i][1],
                         func_name |-> func_name_of(endpoints[i][2].method,
                                                    endpoints[i][2].path),
                         text |-> method_text(endpoints[i][2].method,
                                              endpoints[i][2].path)])
    IN  M[Len(endpoints)]

\* lines 223-233: the methods of one category
category_methods(category, endpoints) ==
    [i \in 1..Len(endpoints) |->
        [kind |-> "method",
         category |-> category,
         endpoint_key |-> endpoints[i][1],
         func_name |-> func_name_of(endpoints[i][2].method, endpoints[i][2].path),
         text |-> method_text(endpoints[i][2].method, endpoints[i][2].path)]]

\* line 221: the comment that opens a category
category_comment(category) ==
    [kind |-> "comment", category |-> category, endpoint_key |-> "",
     func_name |-> "", text |-> "  // " \o Upper(category) \o "\n"]

\* lines 219-233: what the loop adds to ts_code, piece by piece, in order
generate_typescript_client(data) ==
    LET G[i \in 0..Len(data.endpoints)] ==
            IF i = 0 THEN <<>>
            ELSE G[i - 1] \o <<category_comment(data.endpoints[i][1])>>
                 \o category_methods(data.endpoints[i][1], data.endpoints[i][2])
    IN  G[Len(data.endpoints)]

(***************************************************************************)
(* The state machine: the proxy engine calls the hook once per exchange,    *)
(* one call at a time; main in --generate-client mode reads the file.       *)
(***************************************************************************)
NoProbe == [path |-> "", method |-> "", category |-> ""]

Init ==
    /\ captured_endpoints = InitialStore
    /\ request_count = 0
    /\ output_file = <<>>
    /\ io = <<>>
    /\ clock = 1
    /\ flows = <<>>
    /\ ts_output = <<>>
    /\ probe = NoProbe

\* the engine delivers flow to AuraInterceptor.response
Response(flow) ==
    /\ Len(flows) < MaxCalls
    /\ \E st \in {response([captured_endpoints |-> captured_endpoints,
                            request_count |-> request_count,
                            output_file |-> output_file,
                            io |-> io], flow, clock)} :
           /\ captured_endpoints' = st.captured_endpoints
           /\ request_count' = st.request_count
           /\ output_file' = st.output_file
           /\ io' = st.io
    /\ flows' = Append(flows, flow)
    /\ clock' = clock + 1
    /\ UNCHANGED <<ts_output, probe>>

\* lines 250-256: main with --generate-client, when the capture file exists
GenerateClient ==
    /\ output_file # <<>>
    /\ ts_output' = <<generate_typescript_client(output_file[1])>>
    /\ UNCHANGED <<captured_endpoints, request_count, output_file, io, clock,
                   flows, probe>>

Next ==
    \/ \E flow \in Flows : Response(flow)
    \/ GenerateClient

Spec == Init /\ [][Next]_vars

(***************************************************************************)
(* categorize_endpoint alone, on paths built from the segments below.       *)
(***************************************************************************)
Segments == {"/auth", "/login", "/token", "/project", "/generate", "/ai",
             "/export", "/download", "/asset", "/upload", "/image",
             "/template", "/component", "/user", "/account",
             "/api", "/LOGIN", "/Projects", "/x-y"}

Methods == {"GET", "POST"}

RECURSIVE PathsOf(_)
PathsOf(n) ==
    IF n = 0 THEN {""}
    ELSE LET shorter == PathsOf(n - 1)
         IN  shorter \cup {p \o s : p \in shorter, s \in Segments}

InitClassify ==
    /\ captured_endpoints = InitialStore
    /\ request_count = 0
    /\ output_file = <<>>
    /\ io = <<>>
    /\ clock = 1
    /\ flows = <<>>
    /\ ts_output = <<>>
    /\ probe \in {[path |-> p, method |-> m, category |-> ""] :
                    p \in PathsOf(MaxSegments), m \in Methods}

Classify ==
    /\ probe.category = ""
    /\ probe' = [probe EXCEPT !.category = categorize_endpoint(probe.path, probe.method)]
    /\ UNCHANGED <<captured_endpoints, request_count, output_file, io, clock,
                   flows, ts_output>>

NextClassify == Classify

SpecClassify == InitClassify /\ [][NextClassify]_vars

(***************************************************************************)
(* Properties.  What they say of a delivered exchange is read off the      *)
(* exchange itself (flows is the sequence of exchanges delivered so far,   *)
(* and the k-th of them was extracted at clock value k).                    *)
(***************************************************************************)
\* the hook let the exchange through both of its filters
Passed(flow) == OnFlow[flow].is_target /\ ~OnFlow[flow].is_static

\* the last exchange delivered
LastFlow == flows[Len(flows)]

\* "<METHOD> <path>" of a record
KeyOf(r) == r.method \o " " \o r.path

\* the record of the k-th exchange delivered
RecordOf(k) == [OnFlow[flows[k]].endpoint_info EXCEPT !.timestamp = k]

\* the places in flows of the exchanges that passed the filters, in order
Accepted ==
    LET A[k \in 0..Len(flows)] ==
            IF k = 0 THEN <<>>
            ELSE IF Passed(flows[k]) THEN Append(A[k - 1], k) ELSE A[k - 1]
    IN  A[Len(flows)]

\* the records of the exchanges that passed the filters, in arrival order
ExpectedRequests == [i \in 1..Len(Accepted) |-> RecordOf(Accepted[i])]

IsPrefix(s, t) == Len(s) <= Len(t) /\ \A i \in 1..Len(s) : s[i] = t[i]

\* C1 (state part): requests holds exactly one record per exchange that passed
\* both filters, in arrival order, and request_count is its length.
C1_RequestsAreAcceptedExchanges ==
    /\ captured_endpoints.requests = ExpectedRequests
    /\ request_count = Len(captured_endpoints.requests)

\* C1: after any sequence of hook calls, requests holds exactly one record per
\* exchange that passed both filters, in arrival order, with request_count its
\* length; and no step removes or alters a record: the old list is a prefix of
\* the new one.
C1_RequestsLog ==
    /\ []C1_RequestsAreAcceptedExchanges
    /\ [][IsPrefix(captured_endpoints.requests, captured_endpoints'.requests)]_vars

\* C1 witness: two exchanges were recorded and a third, delivered between
\* them, was filtered out.
C1_Witness ==
    /\ Len(flows) = 3
    /\ Passed(flows[1]) /\ ~Passed(flows[2]) /\ Passed(flows[3])
    /\ Len(captured_endpoints.requests) = 2
    /\ request_count = 2

\* C2: a hook call on an exchange the filters reject (host not a target, or a
\* static-asset substring in the request path) leaves endpoints, requests,
\* auth, request_count and the file unchanged and logs nothing, whatever
\* headers the exchange carries.
C2_RejectedChangesNothing ==
    [][(flows' # flows /\ ~Passed(flows'[Len(flows')]))
       => UNCHANGED <<captured_endpoints, request_count, output_file, io>>]_vars

\* C2 witness: after a recorded exchange, a static asset of a target host that
\* carries a bearer token was delivered, and the store still has one record and
\* no trace of that token.
C2_Witness ==
    /\ Len(flows) = 2
    /\ flows[1] = FlowLogin
    /\ flows[2] = FlowStaticAsset
    /\ OnFlow[flows[2]].is_target
    /\ auth_header_of(flows[2]) # ""
    /\ Len(captured_endpoints.requests) = 1
    /\ captured_endpoints.auth.method = PyNone
    /\ Len(io) = 2

\* the rules of the classifier in priority order
Rules ==
    << [label |-> "auth", subs |-> {"/auth", "/login", "/token"}],
       [label |-> "projects", subs |-> {"/project"}],
       [label |-> "generation", subs |-> {"/generate", "/ai"}],
       [label |-> "export", subs |-> {"/export", "/download"}],
       [label |-> "assets", subs |-> {"/asset", "/upload", "/image"}],
       [label |-> "templates", subs |-> {"/template"}],
       [label |-> "components", subs |-> {"/component"}],
       [label |-> "users", subs |-> {"/user", "/account"}] >>

RuleMatches(i, path) == \E s \in Rules[i].subs : Contains(s, Lower(path))

\* the label of the first rule that matches, "other" when none does
FirstRuleLabel(path) ==
    IF \E i \in 1..Len(Rules) : RuleMatches(i, path)
    THEN Rules[CHOOSE i \in 1..Len(Rules) :
                  RuleMatches(i, path) /\ \A j \in 1..(i - 1) : ~RuleMatches(j, path)].label
    ELSE "other"

\* C3: categorize_endpoint returns the label of the first rule, in the fixed
\* priority order, one of whose substrings occurs in the lowercased path, and
\* "other" exactly when none occurs; a path with /auth and /project is "auth";
\* the method does not matter.
C3_FirstMatchingRuleWins ==
    probe.category # "" =>
        /\ probe.category = FirstRuleLabel(probe.path)
        /\ (probe.category = "other"
              <=> \A i \in 1..Len(Rules) : ~RuleMatches(i, probe.path))
        /\ (Contains("/auth", probe.path) /\ Contains("/project", probe.path)
              => probe.category = "auth")
        /\ \A m \in Methods : categorize_endpoint(probe.path, m) = probe.category

\* C3 witness: a path that holds /project before /auth was classified "auth".
C3_Witness ==
    /\ probe.path = "/project/auth"
    /\ probe.category = "auth"

\* the host equals a target domain or ends with one
IsTargetHost(host) ==
    \E d \in 1..Len(TARGET_DOMAINS) :
        host = TARGET_DOMAINS[d] \/ EndsWith(host, TARGET_DOMAINS[d])

\* C4: the target filter accepts a URL exactly when its host equals a target
\* domain or ends with one, so an exchange to a host that holds a target
\* domain elsewhere is never recorded in requests or endpoints.
C4_TargetFilterIsSuffixMatch ==
    /\ \A k \in 1..Len(flows) :
           OnFlow[flows[k]].is_target <=> IsTargetHost(flows[k].host)
    /\ \A i \in 1..Len(captured_endpoints.requests) :
           IsTargetHost(urlparse(captured_endpoints.requests[i].full_url).netloc)
    /\ \A c \in 1..Len(captured_endpoints.endpoints) :
           \A e \in 1..Len(captured_endpoints.endpoints[c][2]) :
               \E k \in 1..Len(flows) :
                   /\ IsTargetHost(flows[k].host)
                   /\ KeyOf(RecordOf(k)) = captured_endpoints.endpoints[c][2][e][1]

\* what an exchange carries as its authorization header: whether the header is
\* there, its value, whether the value holds "Bearer", whether it has the form
\* "Bearer <token>", and the token
AuthFacts ==
    [f \in Flows |->
        LET present == DictHas(f.headers, "authorization")
            value == IF present THEN DictGet(f.headers, "authorization") ELSE ""
        IN  [present |-> present,
             value |-> value,
             bearer |-> Contains("Bearer", value),
             bearer_form |-> Take(value, 7) = "Bearer " /\ ~Contains(" ", Drop(value, 7)),
             token |-> Drop(value, 7)]]

\* the exchange carries an authorization header; with_empty says whether a
\* header of empty value counts
Carries(f, with_empty) ==
    AuthFacts[f].present /\ (with_empty \/ AuthFacts[f].value # "")

\* the places of the accepted exchanges that carry the header
WithHeader(with_empty) ==
    {k \in 1..Len(flows) : Passed(flows[k]) /\ Carries(flows[k], with_empty)}

Latest(K) == CHOOSE k \in K : \A j \in K : j <= k

\* auth.method is last-write-wins over the headers of WithHeader(with_empty)
MethodIsLastWrite(with_empty) ==
    LET K == WithHeader(with_empty)
    IN  captured_endpoints.auth.method =
            IF K = {} THEN PyNone
            ELSE IF AuthFacts[flows[Latest(K)]].bearer THEN PyStr("Bearer")
            ELSE PyStr("Unknown")

\* right after an accepted exchange with header "Bearer <token>", auth is the
\* bearer method, the header name and the first 20 characters of the token
BearerSetsAll ==
    (Len(flows) > 0 /\ Passed(LastFlow) /\ AuthFacts[LastFlow].bearer_form)
    => captured_endpoints.auth =
           [method |-> PyStr("Bearer"),
            token_header |-> PyStr("Authorization"),
            sample_token |-> PyStr(Take(AuthFacts[LastFlow].token, 20) \o "...")]

StoredPreviews ==
    {captured_endpoints.requests[i].response_body_preview :
        i \in 1..Len(captured_endpoints.requests)}
    \cup UNION {{captured_endpoints.endpoints[c][2][e][2].response_body_example :
                    e \in 1..Len(captured_endpoints.endpoints[c][2])} :
                c \in 1..Len(captured_endpoints.endpoints)}

\* what the response body of an exchange is: its length, whether it decodes as
\* JSON, whether the decoded value is truthy, and the length of str() of it
BodyFacts ==
    [f \in Flows |->
        LET content == f.response_content
            is_json == content # "" /\ ~utf8_invalid(content) /\ json_loads(content).ok
        IN  [len |-> Len(content),
             is_json |-> is_json,
             truthy |-> is_json /\ truthy(json_loads(content).value),
             str_len |-> IF is_json THEN Len(py_str(json_loads(content).value)) ELSE 0]]

\* the preview stored for the i-th record, and the exchange it came from
PreviewOf(i) == captured_endpoints.requests[i].response_body_preview
FlowOf(i) == flows[Accepted[i]]

\* C6 as stated: every stored response preview is a string of at most 500
\* characters, and a response body of 1000 characters that decodes as JSON is
\* stored as a preview of exactly 500 characters.
C6_PreviewIsString500 ==
    /\ \A p \in StoredPreviews : p.t = "str" /\ Len(p.s) <= 500
    /\ \A i \in 1..Len(captured_endpoints.requests) :
           (BodyFacts[FlowOf(i)].len = 1000 /\ BodyFacts[FlowOf(i)].is_json)
           => (PreviewOf(i).t = "str" /\ Len(PreviewOf(i).s) = 500)

\* C6 amended: every stored response preview is None or a string of at most
\* 500 characters; it is None exactly when the body is empty or decodes to a
\* falsy JSON value; a body of 1000 characters that decodes to a truthy JSON
\* value is stored as a string of min(500, length of str() of the value)
\* characters, so of exactly 500 when that str() has at least 500.
C6_PreviewIsNoneOrString500 ==
    /\ \A p \in StoredPreviews : p = PyNone \/ (p.t = "str" /\ Len(p.s) <= 500)
    /\ \A i \in 1..Len(captured_endpoints.requests) :
           LET b == BodyFacts[FlowOf(i)]
           IN  /\ PreviewOf(i) = PyNone <=> (b.len = 0 \/ (b.is_json /\ ~b.truthy))
               /\ (b.len = 1000 /\ b.is_json /\ b.truthy)
                  => /\ PreviewOf(i).t = "str"
                     /\ Len(PreviewOf(i).s) = IF b.str_len >= 500 THEN 500 ELSE b.str_len

\* C6 witness: the store holds the 500-character preview of a JSON body of
\* 1000 characters, the one-character preview of another, and a None preview.
C6_Witness ==
    /\ Len(captured_endpoints.requests) = 3
    /\ \E i, j, k \in 1..3 :
           /\ BodyFacts[FlowOf(i)].len = 1000 /\ BodyFacts[FlowOf(i)].is_json
           /\ Len(PreviewOf(i).s) = 500
           /\ BodyFacts[FlowOf(j)].len = 1000 /\ BodyFacts[FlowOf(j)].is_json
           /\ Len(PreviewOf(j).s) = 1
           /\ PreviewOf(k) = PyNone

\* s without the repeats of an item that occurred before
Dedupe(s) ==
    LET D[i \in 0..Len(s)] ==
            IF i = 0 THEN <<>>
            ELSE IF \E j \in 1..Len(D[i - 1]) : D[i - 1][j] = s[i] THEN D[i - 1]
            ELSE Append(D[i - 1], s[i])
    IN  D[Len(s)]

\* the concatenation of the sequences of a sequence
Flatten(ss) ==
    LET F[i \in 0..Len(ss)] == IF i = 0 THEN <<>> ELSE F[i - 1] \o ss[i]
    IN  F[Len(ss)]

\* the category of each path that Flows can record
CategoryOfPath ==
    [p \in {OnFlow[f].endpoint_info.path : f \in Flows} |-> categorize_endpoint(p, "GET")]

\* the endpoint keys of the methods of a generated client, in order
MethodKeys(ts) ==
    LET methods == SelectSeq(ts, LAMBDA item : item.kind = "method")
    IN  [i \in 1..Len(methods) |-> methods[i].endpoint_key]

\* the keys of a capture file in the order first observed
KeysFirstObserved(doc) == Dedupe([i \in 1..Len(doc.requests) |-> KeyOf(doc.requests[i])])

\* the keys of a capture file grouped by category: the categories in the order
\* first observed, and the keys of a category in the order first observed
KeysByCategory(doc) ==
    LET categories == Dedupe([i \in 1..Len(doc.requests) |->
                                 CategoryOfPath[doc.requests[i].path]])
        rs(c) == SelectSeq(doc.requests, LAMBDA r : CategoryOfPath[r.path] = c)
    IN  Flatten([c \in 1..Len(categories) |->
                    Dedupe([i \in 1..Len(rs(categories[c])) |->
                               KeyOf(rs(categories[c])[i])])])

\* C7 as stated: the generated client has exactly one method per distinct
\* endpoint key of the capture file, colliding names included, and the methods
\* come in the order in which their keys were first observed.
C7_MethodsInFirstObservedOrder ==
    [][ts_output' # ts_output
       => MethodKeys(ts_output'[1]) = KeysFirstObserved(output_file[1])]_vars

\* C7 amended: the generated client has exactly one method per distinct
\* endpoint key of the capture file, colliding names included; the methods are
\* grouped by category, the categories in the order first observed and the
\* keys of a category in the order first observed.
C7_MethodsGroupedByCategory ==
    [][ts_output' # ts_output
       => /\ MethodKeys(ts_output'[1]) = KeysByCategory(output_file[1])
          /\ Len(MethodKeys(ts_output'[1]))
               = Cardinality({KeyOf(output_file[1].requests[i]) :
                                 i \in 1..Len(output_file[1].requests)})]_vars

\* C7 witness: a client was generated with two methods of one name for two
\* keys, and with a method of another category observed between them.
C7_Witness ==
    /\ ts_output # <<>>
    /\ Len(flows) = 3
    /\ MethodKeys(ts_output[1]) = <<"GET /api/user-x", "GET /api/user_x", "GET /api/auth/login">>
    /\ KeysFirstObserved(output_file[1])
         = <<"GET /api/user-x", "GET /api/auth/login", "GET /api/user_x">>
    /\ \E i, j \in 1..Len(ts_output[1]) :
           /\ i # j
           /\ ts_output[1][i].kind = "method" /\ ts_output[1][j].kind = "method"
           /\ ts_output[1][i].func_name = ts_output[1][j].func_name

CATEGORIES == {"auth", "projects", "generation", "export", "assets",
               "templates", "components", "users", "other"}

\* the places <<c, e>> of the summaries of endpoints
SummaryPlaces ==
    {ce \in (1..Len(captured_endpoints.endpoints)) \X (1..(MaxCalls + 1)) :
        ce[2] <= Len(captured_endpoints.endpoints[ce[1]][2])}

\* the place in requests of the last record with the key
LastWithKey(key) ==
    CHOOSE i \in 1..Len(captured_endpoints.requests) :
        /\ KeyOf(captured_endpoints.requests[i]) = key
        /\ \A j \in (i + 1)..Len(captured_endpoints.requests) :
               KeyOf(captured_endpoints.requests[j]) # key

\* the summary of a record
SummaryOf(r) ==
    [method |-> r.method,
     path |-> r.path,
     query_params |-> r.query_params,
     request_body_example |-> r.request_body,
     response_status |-> r.response_status,
     response_body_example |-> r.response_body_preview,
     last_seen |-> r.timestamp]

\* C8: endpoints is the table derived from requests: each key of requests has
\* exactly one summary, under the category of its path and no other, equal to
\* the summary of the last record with that key; endpoints has no other key,
\* no empty category and no category outside the fixed set.
C8_EndpointsDerivedFromRequests ==
    LET E == captured_endpoints.endpoints
        R == captured_endpoints.requests
    IN  /\ \A i \in 1..Len(R) :
               Cardinality({ce \in SummaryPlaces : E[ce[1]][2][ce[2]][1] = KeyOf(R[i])}) = 1
        /\ \A ce \in SummaryPlaces :
               LET key == E[ce[1]][2][ce[2]][1]
               IN  /\ \E i \in 1..Len(R) : KeyOf(R[i]) = key
                   /\ E[ce[1]][1] = CategoryOfPath[R[LastWithKey(key)].path]
                   /\ E[ce[1]][2][ce[2]][2] = SummaryOf(R[LastWithKey(key)])
        /\ \A c \in 1..Len(E) :
               /\ E[c][2] # <<>>
               /\ E[c][1] \in CATEGORIES
               /\ \A d \in 1..Len(E) : E[d][1] = E[c][1] => d = c

\* C8 witness: a key was recorded twice with different bodies, and a second
\* category holds another key.
C8_Witness ==
    /\ Len(flows) = 3
    /\ flows[1] = FlowCreateProject
    /\ flows[2] = FlowLogin
    /\ flows[3] = FlowCreateAgain
    /\ Len(captured_endpoints.endpoints) = 2
    /\ captured_endpoints.endpoints[1][1] = "projects"
    /\ captured_endpoints.endpoints[1][2][1][2].response_body_example = PyStr("1")
    /\ captured_endpoints.endpoints[1][2][1][2].last_seen = 3

\* C9: whenever at least one exchange has been accepted, the file holds the
\* whole store (endpoints, requests and auth) as it is in memory, and each log
\* line comes after a write of the file that holds its exchange.
C9_FileHoldsStore ==
    Len(Accepted) > 0 =>
        /\ Len(output_file) = 1
        /\ output_file[1].endpoints = captured_endpoints.endpoints
        /\ output_file[1].requests = captured_endpoints.requests
        /\ output_file[1].auth = captured_endpoints.auth
        /\ output_file[1].captured_at = captured_endpoints.captured_at
        /\ output_file[1].base_url = captured_endpoints.base_url
        /\ {io[i].n : i \in {j \in 1..Len(io) : io[j].op = "log"}} = 1..Len(Accepted)
        /\ \A i \in 1..Len(io) :
               io[i].op = "log"
               => \E j \in 1..(i - 1) : io[j].op = "write" /\ io[j].n >= io[i].n

\* C9 witness: two exchanges were accepted, the second with credentials, and
\* the file holds both records and the credentials.
C9_Witness ==
    /\ Len(flows) = 2
    /\ flows[1] = FlowLogin
    /\ flows[2] = FlowCreateProject
    /\ Len(output_file[1].requests) = 2
    /\ output_file[1].auth.method = PyStr("Bearer")
    /\ Len(io) = 4
    /\ io[4].text = "[2] POST /api/projects -> 201"

\* the step delivers an accepted exchange that carries an authorization header
\* (of empty value too, with with_empty) that does not hold "Bearer"
NonBearerStep(with_empty) ==
    /\ flows' # flows
    /\ Passed(flows'[Len(flows')])
    /\ Carries(flows'[Len(flows')], with_empty)
    /\ ~AuthFacts[flows'[Len(flows')]].bearer

====
